---- MODULE Spec2Model ----
(***************************************************************************)
(* Model of the resumable perplexity batch pipeline:                       *)
(*   perplexity_batch_processor.py  (PerplexityBatchProcessor, main)       *)
(*   extract_results.py             (PerplexityExtractor)                  *)
(*   perplexity_phrase_sorter.py    (PerplexityCalculator)                 *)
(*                                                                         *)
(* The SQLite file is the variable db (committed rows) together with seq   *)
(* (the AUTOINCREMENT counter); txn holds the UPDATEs executed on the open *)
(* connection and not yet committed.  Scores are fixed-point numbers: NLLs *)
(* are whole nats and exp is the table Exp.                                *)
(***************************************************************************)
EXTENDS Integers, Sequences, FiniteSets, TLC

\* ------------------------------------------------------------------ bounds
\* highest rowid the sentences table may hand out
MaxSeq == 3
\* longest list given to one store_sentences call
MaxSentences == 2

\* ------------------------------------------------------------------ values
\* SQL values: NULL, a REAL (finite or +Inf) and the TEXT literal 'inf'
NULL == [kind |-> "null", val |-> 0]
Inf == [kind |-> "inf", val |-> 0]
Real(n) == [kind |-> "real", val |-> n]
TextInf == [kind |-> "text", val |-> 0]

IsNull(v) == v.kind = "null"
IsInf(v) == v.kind = "inf"
IsFinite(v) == v.kind = "real"

\* the sentences the input files are made of
Texts == {"A", "B", "C"}

\* the sentences the scorer is tried on: Texts and one that has no token
Sentences == Texts \cup {"D"}

\* tokenizer.encode: the token ids of each sentence
tokenizer_encode(text) ==
    CASE text = "A" -> <<11, 12, 13>>
      [] text = "B" -> <<21>>
      [] text = "C" -> <<31, 32>>
      [] OTHER -> <<>>

\* the fixed NLL added for a probability that is zero, infinite or NaN
PenaltyNLL == 20

\* -ln(p) of the valid probabilities the model answers with: when the
\* scorer is tried alone, and in the runs of the batch command
ValidNLL == {1, 2, 3}
BatchNLL == {1}

\* what one forward pass can give for the target token: a valid probability
\* (named by its NLL), an invalid one, or an exception
Outcomes(nlls) ==
    {[kind |-> "valid", nll |-> n] : n \in nlls}
        \cup {[kind |-> "invalid", nll |-> 0], [kind |-> "raise", nll |-> 0]}

ProbOutcomes == Outcomes(ValidNLL)
BatchOutcomes == Outcomes(BatchNLL)

\* math.exp on whole arguments 0..20 (floor of e^x)
Exp(x) ==
    <<1, 2, 7, 20, 54, 148, 403, 1096, 2980, 8103, 22026, 59874, 162754,
      442413, 1202604, 3269017, 8886110, 24154952, 65659969, 178482300,
      485165195>>[x + 1]

\* positions of a sentence at which the model can be queried
Positions == 1..2

\* ------------------------------------------------------------------ scorer
\* faulty variant: a position with an invalid probability is skipped, it adds
\* nothing and is not counted
RECURSIVE PredictLoopSkipInvalid(_, _, _, _, _, _)
PredictLoopSkipInvalid(tokens, probs, i, total_nll, num_predictions, queries) ==
    IF i > Len(tokens) - 2
    THEN [exc |-> FALSE, total_nll |-> total_nll,
          num_predictions |-> num_predictions, queries |-> queries]
    ELSE LET asked == Append(queries, <<SubSeq(tokens, 1, i + 1), tokens[i + 2]>>)
             target_prob == probs[i + 1]
         IN  IF target_prob.kind = "raise"
             THEN [exc |-> TRUE, total_nll |-> total_nll,
                   num_predictions |-> num_predictions, queries |-> asked]
             ELSE IF target_prob.kind = "valid"
             THEN PredictLoopSkipInvalid(tokens, probs, i + 1,
                                         total_nll + target_prob.nll,
                                         num_predictions + 1, asked)
             ELSE PredictLoopSkipInvalid(tokens, probs, i + 1, total_nll,
                                         num_predictions, asked)

\* the for loop of calculate_perplexity: position i (0-based), one model
\* query per position, every position counted in num_predictions
RECURSIVE PredictLoop(_, _, _, _, _, _)
PredictLoop(tokens, probs, i, total_nll, num_predictions, queries) ==
    IF i > Len(tokens) - 2
    THEN [exc |-> FALSE, total_nll |-> total_nll,
          num_predictions |-> num_predictions, queries |-> queries]
    ELSE LET context_tokens == SubSeq(tokens, 1, i + 1)
             target_token == tokens[i + 2]
             asked == Append(queries, <<context_tokens, target_token>>)
             target_prob == probs[i + 1]
         IN  IF target_prob.kind = "raise"
             THEN [exc |-> TRUE, total_nll |-> total_nll,
                   num_predictions |-> num_predictions, queries |-> asked]
             ELSE IF target_prob.kind = "valid"
             THEN PredictLoop(tokens, probs, i + 1, total_nll + target_prob.nll,
                              num_predictions + 1, asked)
             ELSE PredictLoop(tokens, probs, i + 1, total_nll + PenaltyNLL,
                              num_predictions + 1, asked)

\* faulty variant: a sentence that is too short is scored 0
TooShortZero == Real(0)

\* what a sentence with fewer than 2 tokens is scored
TooShortScore == Inf

\* the body of the try block: exc tells that an exception left it
TryScore(sentence, tokRaise, probs) ==
    IF tokRaise
    THEN [exc |-> TRUE, value |-> NULL, ntokens |-> 0, queries |-> <<>>]
    ELSE LET tokens == tokenizer_encode(sentence)
         IN  IF Len(tokens) < 2
             THEN [exc |-> FALSE, value |-> TooShortScore,
                   ntokens |-> Len(tokens), queries |-> <<>>]
             ELSE LET r == PredictLoop(tokens, probs, 0, 0, 0, <<>>)
                  IN  IF r.exc
                      THEN [exc |-> TRUE, value |-> NULL,
                            ntokens |-> Len(tokens), queries |-> r.queries]
                      ELSE IF r.num_predictions = 0
                      THEN [exc |-> FALSE, value |-> Inf,
                            ntokens |-> Len(tokens), queries |-> r.queries]
                      ELSE [exc |-> FALSE,
                            value |-> Real(Exp(r.total_nll \div r.num_predictions)),
                            ntokens |-> Len(tokens), queries |-> r.queries]

\* faulty variant: no except clause, the exception reaches the caller
calculate_perplexity_uncaught(sentence, tokRaise, probs) ==
    LET r == TryScore(sentence, tokRaise, probs)
    IN  [value |-> IF r.exc THEN Inf ELSE r.value,
         exc |-> r.exc, raised |-> r.exc,
         tokenized |-> ~tokRaise, ntokens |-> r.ntokens, queries |-> r.queries]

\* calculate_perplexity: the except clause turns every exception into inf;
\* raised tells whether an exception reaches the caller
calculate_perplexity(sentence, tokRaise, probs) ==
    LET r == TryScore(sentence, tokRaise, probs)
    IN  [value |-> IF r.exc THEN Inf ELSE r.value,
         exc |-> r.exc, raised |-> FALSE,
         tokenized |-> ~tokRaise, ntokens |-> r.ntokens, queries |-> r.queries]

\* every score the try block can end with for a sentence, inf standing for
\* an exception
ScoresTable ==
    [s \in Sentences |->
        {(LET r == TryScore(s, t, p) IN IF r.exc THEN Inf ELSE r.value) :
            t \in BOOLEAN, p \in [Positions -> ProbOutcomes]}]

ScoresOf(sentence) == ScoresTable[sentence]

\* ------------------------------------------------------------------ store
\* a row of the sentences table (created_at is never read)
Row(id, text, perplexity) == [id |-> id, text |-> text, perplexity |-> perplexity]

HasText(rows, text) == \E k \in 1..Len(rows) : rows[k].text = text

\* faulty variant: INSERT OR REPLACE, the old row is deleted and a new one made
InsertOrReplace(st, text) ==
    LET keep(r) == r.text # text
    IN  [st EXCEPT !.rows = Append(SelectSeq(st.rows, keep), Row(st.seq + 1, text, NULL)),
                   !.seq = @ + 1]

\* faulty variant: the text column is not UNIQUE, every insert makes a row
InsertAlways(st, text) ==
    [st EXCEPT !.rows = Append(@, Row(st.seq + 1, text, NULL)), !.seq = @ + 1]

\* INSERT OR IGNORE INTO sentences (text, perplexity) VALUES (?, NULL):
\* a rowid is drawn from the AUTOINCREMENT counter even when the UNIQUE
\* constraint makes the insert a no-op
InsertOrIgnore(st, text) ==
    IF HasText(st.rows, text)
    THEN [st EXCEPT !.seq = @ + 1]
    ELSE [st EXCEPT !.rows = Append(@, Row(st.seq + 1, text, NULL)), !.seq = @ + 1]

\* store_sentences: one INSERT OR IGNORE per sentence (an sqlite3.Error on
\* one of them is printed, counted in errors, and the loop goes on), then
\* one commit
RECURSIVE store_sentences(_, _)
store_sentences(st, sentences) ==
    IF sentences = <<>>
    THEN st
    ELSE LET s == Head(sentences)
         IN  store_sentences(IF s.ok THEN InsertOrIgnore(st, s.text)
                                     ELSE [st EXCEPT !.errors = @ + 1],
                             Tail(sentences))

\* faulty variant: the UPDATE is WHERE perplexity IS NULL, not WHERE id = ?
UpdatePending(rows, sentence_id, perplexity) ==
    [k \in 1..Len(rows) |->
        IF IsNull(rows[k].perplexity)
        THEN Row(rows[k].id, rows[k].text, perplexity)
        ELSE rows[k]]

\* UPDATE sentences SET perplexity = ? WHERE id = ?
Update(rows, sentence_id, perplexity) ==
    [k \in 1..Len(rows) |->
        IF rows[k].id = sentence_id
        THEN Row(rows[k].id, rows[k].text, perplexity)
        ELSE rows[k]]

\* the rows with a list of (id, perplexity) updates applied in order
RECURSIVE ApplyUpdates(_, _)
ApplyUpdates(rows, updates) ==
    IF updates = <<>>
    THEN rows
    ELSE ApplyUpdates(Update(rows, Head(updates)[1], Head(updates)[2]), Tail(updates))

\* what the open connection reads: the committed rows and its own
\* uncommitted updates
View(rows, updates) == ApplyUpdates(rows, updates)

\* faulty variant: the list is read without WHERE perplexity IS NULL
get_all_sentences(rows) == [k \in 1..Len(rows) |-> <<rows[k].id, rows[k].text>>]

\* SELECT id, text FROM sentences WHERE perplexity IS NULL ORDER BY id
\* (rows are kept in rowid order)
PendingRow(r) == IsNull(r.perplexity)

\* faulty variant: the list is read ORDER BY id DESC
get_pending_sentences_desc(rows) ==
    LET sel == SelectSeq(rows, PendingRow)
    IN  [k \in 1..Len(sel) |-> <<sel[Len(sel) + 1 - k].id, sel[Len(sel) + 1 - k].text>>]

get_pending_sentences(rows) ==
    LET sel == SelectSeq(rows, PendingRow)
    IN  [k \in 1..Len(sel) |-> <<sel[k].id, sel[k].text>>]

\* how execute and commit of one store_result can end
StoreOutcomes == {"ok", "execute_error", "commit_busy", "commit_rollback"}

\* faulty variant: no commit after the UPDATE
store_result_uncommitted(rows, updates, sentence_id, perplexity, outcome) ==
    LET executed == Append(updates, <<sentence_id, perplexity>>)
    IN  IF outcome = "execute_error"
        THEN [rows |-> rows, updates |-> updates, error |-> TRUE, raised |-> FALSE]
        ELSE [rows |-> rows, updates |-> executed, error |-> FALSE, raised |-> FALSE]

\* faulty variant: no except clause, an sqlite3.Error reaches the caller
store_result_uncaught(rows, updates, sentence_id, perplexity, outcome) ==
    LET executed == Append(updates, <<sentence_id, perplexity>>)
    IN  CASE outcome = "ok" ->
               [rows |-> ApplyUpdates(rows, executed), updates |-> <<>>,
                error |-> FALSE, raised |-> FALSE]
          [] outcome = "commit_busy" ->
               [rows |-> rows, updates |-> executed, error |-> TRUE, raised |-> TRUE]
          [] OTHER ->
               [rows |-> rows, updates |-> updates, error |-> TRUE, raised |-> TRUE]

\* store_result: UPDATE then commit, any sqlite3.Error printed and dropped.
\*   execute_error    the UPDATE fails, nothing changes
\*   commit_busy      the commit fails and the transaction stays open
\*   commit_rollback  the commit fails and the transaction is rolled back
\* error tells that an error was reported, raised that it reaches the caller
store_result(rows, updates, sentence_id, perplexity, outcome) ==
    LET executed == Append(updates, <<sentence_id, perplexity>>)
    IN  CASE outcome = "ok" ->
               [rows |-> ApplyUpdates(rows, executed), updates |-> <<>>,
                error |-> FALSE, raised |-> FALSE]
          [] outcome = "execute_error" ->
               [rows |-> rows, updates |-> updates, error |-> TRUE, raised |-> FALSE]
          [] outcome = "commit_busy" ->
               [rows |-> rows, updates |-> executed, error |-> TRUE, raised |-> FALSE]
          [] OTHER ->
               [rows |-> rows, updates |-> <<>>, error |-> TRUE, raised |-> FALSE]

\* ------------------------------------------------------------------ statistics
\* SQLite compares by storage class: a REAL is never equal to a TEXT, and a
\* comparison with NULL is not true
StorageClass(v) ==
    CASE v.kind = "null" -> "NULL"
      [] v.kind = "text" -> "TEXT"
      [] OTHER -> "REAL"

SqlEq(a, b) ==
    /\ StorageClass(a) # "NULL"
    /\ StorageClass(b) # "NULL"
    /\ StorageClass(a) = StorageClass(b)
    /\ a = b

SqlNe(a, b) ==
    /\ StorageClass(a) # "NULL"
    /\ StorageClass(b) # "NULL"
    /\ ~(StorageClass(a) = StorageClass(b) /\ a = b)

\* the literal 'inf' of the queries: REAL affinity leaves it a TEXT, since
\* it is not the text of a number
InfLiteral == TextInf

\* the perplexity column of the selected rows
Column(rows) == [k \in 1..Len(rows) |-> rows[k].perplexity]

RECURSIVE SumVals(_)
SumVals(vals) == IF vals = <<>> THEN 0 ELSE Head(vals).val + SumVals(Tail(vals))

HasInf(vals) == \E k \in 1..Len(vals) : IsInf(vals[k])

\* a <= b on REAL values, +Inf the greatest
RealLeq(a, b) == IsInf(b) \/ (IsFinite(a) /\ IsFinite(b) /\ a.val <= b.val)

\* AVG, MIN, MAX over non-NULL REAL values; NULL on no row
SqlAvg(vals) ==
    IF vals = <<>> THEN NULL
    ELSE IF HasInf(vals) THEN Inf
    ELSE Real(SumVals(vals) \div Len(vals))

SqlMin(vals) ==
    IF vals = <<>> THEN NULL
    ELSE CHOOSE v \in {vals[k] : k \in 1..Len(vals)} :
            \A k \in 1..Len(vals) : RealLeq(v, vals[k])

SqlMax(vals) ==
    IF vals = <<>> THEN NULL
    ELSE CHOOSE v \in {vals[k] : k \in 1..Len(vals)} :
            \A k \in 1..Len(vals) : RealLeq(vals[k], v)

ScoredRow(r) == ~IsNull(r.perplexity)

\* WHERE perplexity IS NOT NULL AND perplexity != 'inf'
NotInfRow(r) == ~IsNull(r.perplexity) /\ SqlNe(r.perplexity, InfLiteral)

\* WHERE perplexity = 'inf'
InfRow(r) == SqlEq(r.perplexity, InfLiteral)

\* faulty variant: processed counts the finite scores only
get_statistics_finite(rows) ==
    LET total_sentences == Len(rows)
        finiteRow(r) == IsFinite(r.perplexity)
        processed_sentences == Len(SelectSeq(rows, finiteRow))
        vals == Column(SelectSeq(rows, NotInfRow))
    IN  [total |-> total_sentences,
         processed |-> processed_sentences,
         remaining |-> total_sentences - processed_sentences,
         avg_perplexity |-> SqlAvg(vals),
         min_perplexity |-> SqlMin(vals),
         max_perplexity |-> SqlMax(vals),
         infinite_count |-> Len(SelectSeq(rows, InfRow))]

\* PerplexityExtractor.get_statistics
get_statistics(rows) ==
    LET total_sentences == Len(rows)
        processed_sentences == Len(SelectSeq(rows, ScoredRow))
        vals == Column(SelectSeq(rows, NotInfRow))
    IN  [total |-> total_sentences,
         processed |-> processed_sentences,
         remaining |-> total_sentences - processed_sentences,
         avg_perplexity |-> SqlAvg(vals),
         min_perplexity |-> SqlMin(vals),
         max_perplexity |-> SqlMax(vals),
         infinite_count |-> Len(SelectSeq(rows, InfRow))]

\* ------------------------------------------------------------------ ranking
\* most rows of a database the extractor is run on
MaxRows == 3

\* the texts of the databases the extractor is run on, as characters: the
\* queries use LENGTH(text) and text LIKE ?
ExtractTexts == {<<"A">>, <<"B", "a">>, <<"C", "a", "b">>, <<"c", "A", "B", "C">>}

\* the scores of those databases (5 twice makes a tie)
ExtractScores == {NULL, Inf, Real(2), Real(5)}

\* Python's None among the numbers an argument can be
None == NULL

\* a < b in the order of ORDER BY: NULL first, then the REALs, +Inf last
KeyLess(a, b) ==
    \/ IsNull(a) /\ ~IsNull(b)
    \/ IsFinite(a) /\ (IsInf(b) \/ (IsFinite(b) /\ a.val < b.val))

\* how SQLite answers ORDER BY perplexity: by walking idx_sentences_perplexity
\* (backwards for DESC), or by scanning the table and sorting when the
\* database has no such index; ORDER BY on an expression always sorts
Plans == {"index", "sorter"}

\* rows of equal key come out by descending rowid when the index is walked
\* backwards, by ascending rowid otherwise
TiesReversed(desc, plan) == desc /\ plan = "index"

\* ORDER BY key [DESC] over rows selected in rowid order, keys[k] the key of
\* row k
OrderBy(sel, keys, desc, tiesReversed) ==
    LET n == Len(sel)
        first(i, j) ==
            IF keys[i] = keys[j]
            THEN IF tiesReversed THEN i > j ELSE i < j
            ELSE IF desc THEN KeyLess(keys[j], keys[i])
                 ELSE KeyLess(keys[i], keys[j])
    IN  [k \in 1..n |->
            sel[CHOOSE i \in 1..n :
                    Cardinality({j \in 1..n : j # i /\ first(j, i)}) = k - 1]]

\* LIMIT n, n >= 0
Limit(s, n) == SubSeq(s, 1, IF n < Len(s) THEN n ELSE Len(s))

\* the tuples fetchall returns
Entry(r) == <<r.text, r.perplexity>>
Entries(rows) == [k \in 1..Len(rows) |-> Entry(rows[k])]

\* PerplexityExtractor.get_sentences_by_perplexity
get_sentences_by_perplexity(rows, limit, min_perplexity, max_perplexity, plan) ==
    LET keep(r) ==
            /\ ~IsNull(r.perplexity)
            /\ IsNull(min_perplexity) \/ RealLeq(min_perplexity, r.perplexity)
            /\ IsNull(max_perplexity) \/ RealLeq(r.perplexity, max_perplexity)
        sel == SelectSeq(rows, keep)
        ordered == OrderBy(sel, Column(sel), TRUE, TiesReversed(TRUE, plan))
    IN  Entries(IF ~IsNull(limit) THEN Limit(ordered, limit.val) ELSE ordered)

\* faulty variant: the top query passes no limit
get_top_unlimited(rows, n, plan) ==
    get_sentences_by_perplexity(rows, None, None, None, plan)

\* PerplexityExtractor.get_top_perplexity_sentences
get_top_perplexity_sentences(rows, n, plan) ==
    get_sentences_by_perplexity(rows, Real(n), None, None, plan)

\* PerplexityBatchProcessor.get_results_sorted
get_results_sorted(rows, plan) ==
    LET sel == SelectSeq(rows, ScoredRow)
    IN  Entries(OrderBy(sel, Column(sel), TRUE, TiesReversed(TRUE, plan)))

\* PerplexityCalculator.sort_by_perplexity: sorted(..., reverse=True) keeps
\* the order of equal keys
sort_by_perplexity(sentence_perplexities) ==
    OrderBy(sentence_perplexities,
            [k \in 1..Len(sentence_perplexities) |-> sentence_perplexities[k][2]],
            TRUE, FALSE)

\* PerplexityExtractor.get_bottom_perplexity_sentences
get_bottom_perplexity_sentences(rows, n) ==
    LET sel == SelectSeq(rows, NotInfRow)
    IN  Entries(Limit(OrderBy(sel, Column(sel), FALSE, FALSE), n))

\* LOG(n), the base-10 logarithm of SQLite, in hundredths
Log(n) ==
    CASE n = 1 -> 0 [] n = 2 -> 30 [] n = 3 -> 47 [] n = 4 -> 60
      [] n = 5 -> 69 [] n = 6 -> 77 [] n = 7 -> 84 [] OTHER -> 90

\* perplexity * f for f >= 0: +Inf * 0 is NaN, which SQLite makes NULL
Times(p, f) ==
    IF IsNull(p) THEN NULL
    ELSE IF IsInf(p) THEN (IF f = 0 THEN NULL ELSE Inf)
    ELSE Real(p.val * f)

\* the tuples of the two complexity queries
ComplexEntry(r, score) == <<r.text, r.perplexity, score>>

\* PerplexityExtractor.get_most_complex_sentences; complexity_score is in
\* hundredths
get_most_complex_sentences(rows, n, min_length) ==
    LET keep(r) == NotInfRow(r) /\ Len(r.text) >= min_length
        score(r) == Times(r.perplexity, Log(Len(r.text)))
        sel == SelectSeq(rows, keep)
        ordered == Limit(OrderBy(sel, [k \in 1..Len(sel) |-> score(sel[k])],
                                 TRUE, FALSE), n)
    IN  [k \in 1..Len(ordered) |-> ComplexEntry(ordered[k], score(ordered[k]))]

\* PerplexityExtractor.get_sentences_by_complexity
get_sentences_by_complexity(rows, limit, min_length, complexity_weight) ==
    LET keep(r) == NotInfRow(r) /\ Len(r.text) >= min_length
        score(r) == Times(r.perplexity, Len(r.text) ^ complexity_weight)
        sel == SelectSeq(rows, keep)
        sorted == OrderBy(sel, [k \in 1..Len(sel) |-> score(sel[k])], TRUE, FALSE)
        ordered == IF ~IsNull(limit) THEN Limit(sorted, limit.val) ELSE sorted
    IN  [k \in 1..Len(ordered) |-> ComplexEntry(ordered[k], score(ordered[k]))]

\* LOWER(c) on the letters of the texts and keywords
Lower(c) ==
    CASE c = "A" -> "a" [] c = "B" -> "b" [] c = "C" -> "c" [] OTHER -> c

\* text LIKE pattern: % is any run of characters, _ any one character, and
\* letters match whatever their case
RECURSIVE Like(_, _)
Like(pattern, text) ==
    IF pattern = <<>> THEN text = <<>>
    ELSE IF Head(pattern) = "%"
         THEN Like(Tail(pattern), text) \/ (text # <<>> /\ Like(pattern, Tail(text)))
         ELSE /\ text # <<>>
              /\ Head(pattern) = "_" \/ Lower(Head(pattern)) = Lower(Head(text))
              /\ Like(Tail(pattern), Tail(text))

\* faulty variant: the search does not ask for a score
search_sentences_unscored(rows, keyword, case_sensitive, plan) ==
    LET search_pattern == <<"%">> \o keyword \o <<"%">>
        keep(r) ==
            IF case_sensitive THEN Like(search_pattern, r.text)
            ELSE Like([k \in 1..Len(search_pattern) |-> Lower(search_pattern[k])],
                         [k \in 1..Len(r.text) |-> Lower(r.text[k])])
        sel == SelectSeq(rows, keep)
    IN  Entries(OrderBy(sel, Column(sel), TRUE, TiesReversed(TRUE, plan)))

\* PerplexityExtractor.search_sentences
search_sentences(rows, keyword, case_sensitive, plan) ==
    LET search_pattern == <<"%">> \o keyword \o <<"%">>
        keep(r) ==
            /\ IF case_sensitive THEN Like(search_pattern, r.text)
               ELSE Like([k \in 1..Len(search_pattern) |-> Lower(search_pattern[k])],
                         [k \in 1..Len(r.text) |-> Lower(r.text[k])])
            /\ ~IsNull(r.perplexity)
        sel == SelectSeq(rows, keep)
    IN  Entries(OrderBy(sel, Column(sel), TRUE, TiesReversed(TRUE, plan)))

\* ------------------------------------------------------------------ export
\* texts are written character by character; a character outside ASCII is
\* named by its code point
InfinitySign == "U+221E"

Digit(d) ==
    CASE d = 0 -> "0" [] d = 1 -> "1" [] d = 2 -> "2" [] d = 3 -> "3" [] d = 4 -> "4"
      [] d = 5 -> "5" [] d = 6 -> "6" [] d = 7 -> "7" [] d = 8 -> "8" [] OTHER -> "9"

RECURSIVE Decimal(_)
Decimal(n) == IF n < 10 THEN <<Digit(n)>> ELSE Decimal(n \div 10) \o <<Digit(n % 10)>>

\* f"{perplexity}" of a float holding a whole number, or inf
FloatStr(p) == IF IsInf(p) THEN <<"i", "n", "f">> ELSE Decimal(p.val) \o <<".", "0">>

\* perp_str: the sign of infinity or f"{perplexity:.2f}"
PerpStr(p) == IF IsInf(p) THEN <<InfinitySign>> ELSE Decimal(p.val) \o <<".", "0", "0">>

\* str.replace(c, by) on every character
RECURSIVE Replace(_, _, _)
Replace(text, c, by) ==
    IF text = <<>> THEN <<>>
    ELSE (IF Head(text) = c THEN by ELSE <<Head(text)>>) \o Replace(Tail(text), c, by)

\* json.dump of a float and of a str with ensure_ascii=False
JsonFloat(p) ==
    IF IsInf(p) THEN <<"I", "n", "f", "i", "n", "i", "t", "y">> ELSE FloatStr(p)
JsonStr(text) ==
    <<"\"">> \o Replace(Replace(Replace(text, "\\", <<"\\", "\\">>),
                                "\"", <<"\\", "\"">>), "\n", <<"\\", "n">>) \o <<"\"">>

TitleLine ==
    <<"P", "H", "R", "A", "S", "E", "S", " ", "T", "R", "I", "U+00C9", "E",
      "S", " ", "P", "A", "R", " ", "P", "E", "R", "P", "L", "E", "X", "I",
      "T", "U+00C9", " ", "D", "U+00C9", "C", "R", "O", "I", "S", "S", "A",
      "N", "T", "E", "\n">>
RuleLine == [k \in 1..82 |-> IF k <= 80 THEN "=" ELSE "\n"]
CsvHeader ==
    <<"s", "e", "n", "t", "e", "n", "c", "e", ",", "p", "e", "r", "p", "l",
      "e", "x", "i", "t", "y", "\n">>
JsonSentenceKey ==
    <<"\n", " ", " ", "{", "\n", " ", " ", " ", " ", "\"", "s", "e", "n",
      "t", "e", "n", "c", "e", "\"", ":", " ">>
JsonPerplexityKey ==
    <<",", "\n", " ", " ", " ", " ", "\"", "p", "e", "r", "p", "l", "e", "x",
      "i", "t", "y", "\"", ":", " ">>
JsonItemEnd ==
    <<"\n", " ", " ", "}">>

Formats == {"standard", "csv", "json"}

\* faulty variant: the quotes of the sentence are written as they are
escaped_sentence_raw(sentence) == sentence

\* sentence.replace('"', '""')
escaped_sentence(sentence) == Replace(sentence, "\"", <<"\"", "\"">>)

\* the writes of export_to_text for the list sentences, one element of lines
\* for each f.write (json.dump: one for each part of the array)
WriteFile(sentences, format_type) ==
    LET n == Len(sentences)
        standard(k) == sentences[k][1] \o <<" ", "[", "[">> \o PerpStr(sentences[k][2])
                           \o <<"]", "]", "\n">>
        csv(k) == <<"\"">> \o escaped_sentence(sentences[k][1])
                      \o <<"\"", ",">> \o FloatStr(sentences[k][2]) \o <<"\n">>
        json(k) == (IF k = 1 THEN <<"[">> ELSE <<",">>) \o JsonSentenceKey
                       \o JsonStr(sentences[k][1]) \o JsonPerplexityKey
                       \o JsonFloat(sentences[k][2]) \o JsonItemEnd
    IN  [format |-> format_type,
         lines |->
            CASE format_type = "standard" ->
                    <<TitleLine, RuleLine>> \o [k \in 1..n |-> standard(k)]
              [] format_type = "csv" -> <<CsvHeader>> \o [k \in 1..n |-> csv(k)]
              [] OTHER -> IF n = 0 THEN <<<<"[", "]">>>>
                          ELSE [k \in 1..n |-> json(k)] \o <<<<"\n", "]">>>>]

\* PerplexityExtractor.export_to_text
export_to_text(rows, format_type, plan) ==
    WriteFile(get_sentences_by_perplexity(rows, None, None, None, plan), format_type)

\* ------------------------------------------------------------------ segmenter
\* the classes [.!?] and \s of the pattern, on the characters of the texts
IsPunct(c) == c \in {".", "!", "?"}
IsSpace(c) == c \in {" ", "\n", "\t"}

\* str.strip()
RECURSIVE strip(_)
strip(s) ==
    IF s = <<>> THEN s
    ELSE IF IsSpace(Head(s)) THEN strip(Tail(s))
    ELSE IF IsSpace(s[Len(s)]) THEN strip(SubSeq(s, 1, Len(s) - 1))
    ELSE s

\* the last position of the run of [.!?] (punct) or of \s that begins at
\* position i
RunEnd(text, i, punct) ==
    LET InClass(c) == IF punct THEN IsPunct(c) ELSE IsSpace(c)
    IN  CHOOSE e \in i..Len(text) :
            /\ \A k \in i..e : InClass(text[k])
            /\ e = Len(text) \/ ~InClass(text[e + 1])

\* re.split(r'[.!?]+(?:\s+|$)', text): the scan is at position i, the piece
\* being read began at position start; a match is a whole run of [.!?]
\* followed by the end of the text or by a run of \s, which it takes too
RECURSIVE re_split(_, _, _, _)
re_split(text, i, start, pieces) ==
    IF i > Len(text) THEN Append(pieces, SubSeq(text, start, Len(text)))
    ELSE IF ~IsPunct(text[i]) THEN re_split(text, i + 1, start, pieces)
    ELSE LET e == RunEnd(text, i, TRUE)
             piece == SubSeq(text, start, i - 1)
         IN  IF e = Len(text) THEN Append(Append(pieces, piece), <<>>)
             ELSE IF IsSpace(text[e + 1])
                  THEN LET w == RunEnd(text, e + 1, FALSE)
                       IN  re_split(text, w + 1, w + 1, Append(pieces, piece))
                  ELSE re_split(text, e + 1, start, pieces)

\* faulty variant: the pieces are kept as they were cut
split_into_sentences_untrimmed(text, strict) ==
    LET kept(s) == strip(s) # <<>> /\ (strict => Len(strip(s)) > 5)
    IN  SelectSeq(re_split(strip(text), 1, 1, <<>>), kept)

\* PerplexityCalculator.split_into_sentences, and with strict
\* PerplexityBatchProcessor.split_into_sentences (len(s.strip()) > 5)
split_into_sentences(text, strict) ==
    LET kept(s) == strip(s) # <<>> /\ (strict => Len(strip(s)) > 5)
        pieces == SelectSeq(re_split(strip(text), 1, 1, <<>>), kept)
    IN  [k \in 1..Len(pieces) |-> strip(pieces[k])]

\* ------------------------------------------------------------------ state
VARIABLES
    db,               \* committed rows of the sentences table, in rowid order
    seq,              \* the AUTOINCREMENT counter of the table
    txn,              \* UPDATEs of the open connection not yet committed
    model,            \* self.model: "None" or "loaded"
    pc,               \* where the batch command is
    sentences,        \* main: the list given to store_sentences
    errors,           \* errors store_sentences printed
    pending,          \* process_batch: the list read at the start of the run
    processed_count,  \* process_batch: records handled so far in the run
    perplexity,       \* process_batch: the score just computed
    calc,             \* the last call of calculate_perplexity in the run
    run,              \* history of the current or last run of process_batch
    prev,             \* history of the run before it, kept while a run is on
    inserted,         \* ids inserted since the last run read its pending list
    scoredEver,       \* ids calculate_perplexity was ever called for
    stats,            \* the last result of get_statistics
    call,             \* scorer alone: the sentence and what tokenizer and model do
    result            \* scorer alone: what calculate_perplexity returned

pvars == <<db, seq, txn, model, pc, sentences, errors, pending, processed_count,
           perplexity, calc, run, prev, inserted, scoredEver, stats>>
svars == <<call, result>>
vars == <<pvars, svars>>

NoCalc == [id |-> 0, exc |-> FALSE, tokenized |-> FALSE, ntokens |-> 0, queries |-> <<>>]
NoStats == [total |-> -1]
NoRun == [snapshot |-> <<>>, scored |-> <<>>, failed |-> {}, persisted |-> {},
          stored |-> {}, exc |-> {}, ended |-> "none"]
NoPrev == [snapshot |-> <<>>, persisted |-> {}, ended |-> "none", inserted |-> {}]
NoResult == [value |-> NULL, exc |-> FALSE, raised |-> FALSE, tokenized |-> FALSE,
             ntokens |-> 0, queries |-> <<>>]

\* the lists a store_sentences call can be given: texts in order, each with
\* whether its INSERT succeeds
SentenceLists ==
    UNION {[1..n -> [text : Texts, ok : BOOLEAN]] : n \in 0..MaxSentences}

\* the calls of the scorer alone
Calls == [sentence : Sentences, tokRaise : BOOLEAN, probs : [Positions -> ProbOutcomes]]

RowIds(rows) == {rows[k].id : k \in 1..Len(rows)}
RowTexts(rows) == {rows[k].text : k \in 1..Len(rows)}
ScoredIds(rows) == {rows[k].id : k \in {j \in 1..Len(rows) : ~IsNull(rows[j].perplexity)}}
PerplexityOf(rows, id) == (CHOOSE r \in {rows[k] : k \in 1..Len(rows)} : r.id = id).perplexity
SeqIds(s) == [k \in 1..Len(s) |-> s[k][1]]
Range(s) == {s[k] : k \in 1..Len(s)}

PipelineInit ==
    /\ db = <<>>
    /\ seq = 0
    /\ txn = <<>>
    /\ model = "None"
    /\ pc = "idle"
    /\ sentences = <<>>
    /\ errors = 0
    /\ pending = <<>>
    /\ processed_count = 0
    /\ perplexity = NULL
    /\ calc = NoCalc
    /\ run = NoRun
    /\ prev = NoPrev
    /\ inserted = {}
    /\ scoredEver = {}
    /\ stats = NoStats

Init ==
    /\ PipelineInit
    /\ call = [sentence |-> "A", tokRaise |-> FALSE,
               probs |-> [k \in Positions |-> [kind |-> "invalid", nll |-> 0]]]
    /\ result = NoResult

\* ------------------------------------------------------------------ actions
\* the process ends (main's finally: processor.close()): the connection is
\* closed, which rolls back what it had not committed
EndProcess(how) ==
    /\ pc' = "idle"
    /\ txn' = <<>>
    /\ model' = "None"
    /\ sentences' = <<>>
    /\ errors' = 0
    /\ pending' = <<>>
    /\ processed_count' = 0
    /\ perplexity' = NULL
    /\ calc' = NoCalc
    /\ prev' = NoPrev
    /\ run' = [run EXCEPT !.ended = IF @ = "running" THEN how ELSE @]

\* PerplexityBatchProcessor.__init__ and init_database: opens the database,
\* CREATE TABLE IF NOT EXISTS keeps the rows; the model is not loaded
Construct ==
    /\ pc = "idle"
    /\ pc' = "init"
    /\ model' = "None"
    /\ txn' = <<>>
    /\ stats' = NoStats
    /\ UNCHANGED <<db, seq, sentences, errors, pending, processed_count, perplexity,
                   calc, run, prev, inserted, scoredEver>>
    /\ UNCHANGED svars

\* main: split_into_sentences of the input file, then store_sentences
StoreSentences ==
    /\ pc = "init"
    /\ \E given \in SentenceLists :
        /\ seq + Len(given) <= MaxSeq
        /\ LET st == store_sentences([rows |-> db, seq |-> seq, errors |-> 0], given)
           IN  /\ db' = st.rows
               /\ seq' = st.seq
               /\ errors' = st.errors
               /\ inserted' = inserted \cup (RowIds(st.rows) \ RowIds(db))
        /\ sentences' = given
    /\ pc' = "stored"
    /\ UNCHANGED <<txn, model, pending, processed_count, perplexity, calc, run,
                   prev, scoredEver, stats>>
    /\ UNCHANGED svars

\* load_model: loads only when self.model is None
load_model(m) == IF m = "None" THEN "loaded" ELSE m

\* process_batch up to the loop: load_model, get_pending_sentences, return
\* at once when nothing is pending
ProcessBatchBegin ==
    /\ pc = "stored"
    /\ model' = load_model(model)
    /\ LET got == get_pending_sentences(View(db, txn))
       IN  /\ pending' = got
           /\ pc' = IF got = <<>> THEN "done" ELSE "scoring"
           /\ run' = [NoRun EXCEPT !.snapshot = SeqIds(got),
                                   !.ended = IF got = <<>> THEN "returned" ELSE "running"]
    /\ processed_count' = 0
    /\ prev' = [snapshot |-> run.snapshot, persisted |-> run.persisted,
                ended |-> run.ended, inserted |-> inserted]
    /\ inserted' = {}
    /\ sentences' = <<>>
    /\ errors' = 0
    /\ UNCHANGED <<db, seq, txn, perplexity, calc, scoredEver, stats>>
    /\ UNCHANGED svars

\* the loop body up to calculate_perplexity for the next record of pending;
\* an exception that leaves calculate_perplexity leaves process_batch too and
\* ends main
CalculatePerplexity ==
    /\ pc = "scoring"
    /\ LET sentence_id == pending[processed_count + 1][1]
           sentence == pending[processed_count + 1][2]
       IN  \E tokRaise \in BOOLEAN, probs \in [Positions -> BatchOutcomes] :
             LET r == calculate_perplexity(sentence, tokRaise, probs)
             IN  /\ scoredEver' = scoredEver \cup {sentence_id}
                 /\ IF r.raised
                    THEN /\ EndProcess("aborted_score")
                         /\ UNCHANGED <<db, seq, inserted, stats>>
                    ELSE /\ perplexity' = r.value
                         /\ calc' = [id |-> sentence_id, exc |-> r.exc,
                                     tokenized |-> r.tokenized,
                                     ntokens |-> r.ntokens, queries |-> r.queries]
                         /\ run' = [run EXCEPT !.scored = Append(@, sentence_id),
                                               !.exc = IF r.exc THEN @ \cup {sentence_id} ELSE @]
                         /\ pc' = "storing"
                         /\ UNCHANGED <<db, seq, txn, model, sentences, errors, pending,
                                        processed_count, prev, inserted, stats>>
    /\ UNCHANGED svars

\* the rest of the loop body: store_result, processed_count += 1, and the
\* end of the loop after the last record; an exception that leaves
\* store_result leaves process_batch too and ends main
StoreResult ==
    /\ pc = "storing"
    /\ LET sentence_id == pending[processed_count + 1][1]
       IN  \E outcome \in StoreOutcomes :
             LET r == store_result(db, txn, sentence_id, perplexity, outcome)
             IN  IF r.raised
                 THEN /\ EndProcess("aborted_store")
                      /\ UNCHANGED <<db, seq, inserted, scoredEver, stats>>
                 ELSE /\ db' = r.rows
                      /\ txn' = r.updates
                      /\ processed_count' = processed_count + 1
                      /\ pc' = IF processed_count + 1 = Len(pending) THEN "done" ELSE "scoring"
                      /\ run' = [run EXCEPT
                                   !.failed = IF r.error THEN @ \cup {sentence_id} ELSE @,
                                   !.stored = IF r.error THEN @
                                              ELSE @ \cup {<<sentence_id, perplexity>>},
                                   !.persisted = @ \cup (ScoredIds(r.rows) \ ScoredIds(db)),
                                   !.ended = IF processed_count + 1 = Len(pending)
                                             THEN "returned" ELSE @]
                      /\ UNCHANGED <<seq, model, sentences, errors, pending, perplexity,
                                     calc, prev, inserted, scoredEver, stats>>
    /\ UNCHANGED svars

\* main returns (input file missing, or process_batch done): finally close()
Close ==
    /\ pc \in {"init", "done"}
    /\ EndProcess("returned")
    /\ UNCHANGED <<db, seq, inserted, scoredEver, stats>>
    /\ UNCHANGED svars

\* KeyboardInterrupt, or the process is killed: the connection closes
Interrupt ==
    /\ pc \in {"stored", "scoring", "storing"}
    /\ EndProcess("interrupted")
    /\ UNCHANGED <<db, seq, inserted, scoredEver, stats>>
    /\ UNCHANGED svars

\* the extractor command, run between two batch commands
GetStatistics ==
    /\ pc = "idle"
    /\ stats' = get_statistics(db)
    /\ UNCHANGED <<db, seq, txn, model, pc, sentences, errors, pending,
                   processed_count, perplexity, calc, run, prev, inserted, scoredEver>>
    /\ UNCHANGED svars

Next ==
    \/ Construct
    \/ StoreSentences
    \/ ProcessBatchBegin
    \/ CalculatePerplexity
    \/ StoreResult
    \/ Close
    \/ Interrupt
    \/ GetStatistics

Spec == Init /\ [][Next]_vars

\* ------------------------------------------------------------------ insertion during a run
\* a second batch command on the same database commits the INSERT of its
\* store_sentences while this one is in the loop of process_batch (it cannot
\* while this connection holds an open write transaction)
InsertDuringRun ==
    /\ pc \in {"scoring", "storing"}
    /\ txn = <<>>
    /\ seq + 1 <= MaxSeq
    /\ \E text \in Texts :
        LET st == store_sentences([rows |-> db, seq |-> seq, errors |-> 0],
                                  <<[text |-> text, ok |-> TRUE]>>)
        IN  /\ db' = st.rows
            /\ seq' = st.seq
            /\ inserted' = inserted \cup (RowIds(st.rows) \ RowIds(db))
    /\ UNCHANGED <<txn, model, pc, sentences, errors, pending, processed_count,
                   perplexity, calc, run, prev, scoredEver, stats>>
    /\ UNCHANGED svars

SpecInsert == Init /\ [][Next \/ InsertDuringRun]_vars

\* ------------------------------------------------------------------ scorer alone
\* one call of calculate_perplexity on any sentence, tokenizer and model
ScorerInit ==
    /\ PipelineInit
    /\ call \in Calls
    /\ result = NoResult

Score ==
    /\ result = NoResult
    /\ result' = calculate_perplexity(call.sentence, call.tokRaise, call.probs)
    /\ UNCHANGED <<call, pvars>>

ScorerNext == Score

SpecScorer == ScorerInit /\ [][ScorerNext]_vars

\* ------------------------------------------------------------------ queries alone
\* the databases the extractor is run on: rows in rowid order, texts unique
ExtractStores ==
    UNION {{[k \in 1..n |-> Row(k, t[k], p[k])] :
                t \in {u \in [1..n -> ExtractTexts] :
                          \A i, j \in 1..n : i # j => u[i] # u[j]},
                p \in [1..n -> ExtractScores]} : n \in 0..MaxRows}

NoFile == [format |-> "none", lines |-> <<>>]
NoQuery == [op |-> "none", n |-> 0, limit |-> None, min_length |-> 0,
            complexity_weight |-> 0, keyword |-> <<>>, case_sensitive |-> FALSE,
            min_perplexity |-> None, max_perplexity |-> None, plan |-> "index"]
NoAnswer == [view |-> <<>>, file |-> NoFile, printed |-> <<>>]

\* no command is running on the database
NoProcess ==
    /\ txn = <<>>
    /\ model = "None"
    /\ pc = "idle"
    /\ sentences = <<>>
    /\ errors = 0
    /\ pending = <<>>
    /\ processed_count = 0
    /\ perplexity = NULL
    /\ calc = NoCalc
    /\ run = NoRun
    /\ prev = NoPrev
    /\ inserted = {}
    /\ scoredEver = {}
    /\ stats = NoStats

ExtractInit ==
    /\ NoProcess
    /\ db \in ExtractStores
    /\ seq = Len(db)
    /\ call = NoQuery
    /\ result = NoAnswer

\* one query on the database: what was asked and the list it returned
Query(q, v) ==
    /\ call = NoQuery
    /\ call' = q
    /\ result' = [NoAnswer EXCEPT !.view = v]
    /\ UNCHANGED pvars

GetTop ==
    \E n \in 0..MaxRows, plan \in Plans :
        Query([NoQuery EXCEPT !.op = "top", !.n = n, !.plan = plan],
              get_top_perplexity_sentences(db, n, plan))

GetBottom ==
    \E n \in 0..MaxRows :
        Query([NoQuery EXCEPT !.op = "bottom", !.n = n],
              get_bottom_perplexity_sentences(db, n))

GetMostComplex ==
    \E n \in 0..MaxRows, min_length \in {1, 3} :
        Query([NoQuery EXCEPT !.op = "most_complex", !.n = n, !.plan = "sorter",
                              !.min_length = min_length],
              get_most_complex_sentences(db, n, min_length))

GetByComplexity ==
    \E limit \in {None, Real(0), Real(1), Real(2)}, min_length \in {1, 3},
       weight \in {0, 1, 2} :
        Query([NoQuery EXCEPT !.op = "by_complexity", !.limit = limit,
                              !.plan = "sorter", !.min_length = min_length,
                              !.complexity_weight = weight],
              get_sentences_by_complexity(db, limit, min_length, weight))

Search ==
    \E keyword \in {<<"a">>, <<"A">>, <<"b">>, <<"_">>}, case_sensitive \in BOOLEAN,
       plan \in Plans :
        Query([NoQuery EXCEPT !.op = "search", !.keyword = keyword, !.plan = plan,
                              !.case_sensitive = case_sensitive],
              search_sentences(db, keyword, case_sensitive, plan))

GetByPerplexity ==
    \E limit \in {None, Real(1)}, lo \in {None, Real(2), Real(5)},
       hi \in {None, Real(2), Real(5)}, plan \in Plans :
        Query([NoQuery EXCEPT !.op = "range", !.limit = limit, !.plan = plan,
                              !.min_perplexity = lo, !.max_perplexity = hi],
              get_sentences_by_perplexity(db, limit, lo, hi, plan))

GetResultsSorted ==
    \E plan \in Plans :
        Query([NoQuery EXCEPT !.op = "sorted", !.plan = plan],
              get_results_sorted(db, plan))

\* the sorter command sorts the list process_text made, here the scored
\* sentences in the order of the text
SortByPerplexity ==
    Query([NoQuery EXCEPT !.op = "sort_by_perplexity", !.plan = "sorter"],
          sort_by_perplexity(Entries(SelectSeq(db, ScoredRow))))

SpecExtract ==
    ExtractInit /\ [][\/ GetTop
                      \/ GetBottom
                      \/ GetMostComplex
                      \/ GetByComplexity
                      \/ Search
                      \/ GetByPerplexity
                      \/ GetResultsSorted
                      \/ SortByPerplexity]_vars

\* ------------------------------------------------------------------ extractor command
\* the test "if args.top:" on an optional number
Truthy(v) == ~IsNull(v) /\ v.val # 0

\* the arguments of the extractor command when no option is given, and the
\* plan of the database it is run on
NoArgs == [top |-> None, bottom |-> None, complex |-> None, min_length |-> 50,
           search |-> <<>>, case_sensitive |-> FALSE, limit |-> None,
           min_perplexity |-> None, max_perplexity |-> None,
           output |-> FALSE, format |-> "standard", plan |-> "index"]

\* the selections the command is tried with
Selections ==
    {[NoArgs EXCEPT !.top = Real(n)] : n \in 0..2}
    \cup {[NoArgs EXCEPT !.bottom = Real(1)],
          [NoArgs EXCEPT !.complex = Real(1), !.min_length = 1],
          [NoArgs EXCEPT !.search = <<"a">>]}
    \cup {[NoArgs EXCEPT !.limit = l, !.min_perplexity = lo] :
              l \in {None, Real(1)}, lo \in {None, Real(5)}}

MainArgs ==
    {[s EXCEPT !.output = f # "none", !.plan = plan,
               !.format = IF f = "none" THEN "standard" ELSE f] :
        s \in Selections, f \in Formats \cup {"none"}, plan \in Plans}

\* main of extract_results.py after the statistics: the list selected, and
\* the file written or the list printed
main(rows, args) ==
    LET selected ==
            IF Truthy(args.top)
            THEN get_top_perplexity_sentences(rows, args.top.val, args.plan)
            ELSE IF Truthy(args.bottom)
            THEN get_bottom_perplexity_sentences(rows, args.bottom.val)
            ELSE IF Truthy(args.complex)
            THEN get_most_complex_sentences(rows, args.complex.val, args.min_length)
            ELSE IF args.search # <<>>
            THEN search_sentences(rows, args.search, args.case_sensitive, args.plan)
            ELSE get_sentences_by_perplexity(rows, args.limit, args.min_perplexity,
                                             args.max_perplexity, args.plan)
    IN  [view |-> selected,
         file |-> IF args.output THEN export_to_text(rows, args.format, args.plan)
                  ELSE NoFile,
         printed |-> IF args.output THEN <<>> ELSE selected]

ExportInit ==
    /\ NoProcess
    /\ db \in ExtractStores
    /\ seq = Len(db)
    /\ call = NoArgs
    /\ result = NoAnswer

\* one run of the extractor command on an existing database
ExtractorMain ==
    /\ pc = "idle"
    /\ call = NoArgs
    /\ result = NoAnswer
    /\ \E args \in MainArgs :
        /\ call' = args
        /\ result' = main(db, args)
    /\ stats' = get_statistics(db)
    /\ UNCHANGED <<db, seq, txn, model, pc, sentences, errors, pending,
                   processed_count, perplexity, calc, run, prev, inserted, scoredEver>>

SpecExport == ExportInit /\ [][ExtractorMain]_vars

\* ------------------------------------------------------------------ export alone
\* longest text of the databases the export is tried on
MaxCsvChars == 2

\* their texts: every text of a letter, the quote, the comma and the line break
CsvTexts == UNION {[1..n -> {"a", "\"", ",", "\n"}] : n \in 0..MaxCsvChars}

CsvStores ==
    UNION {{[k \in 1..n |-> Row(k, t[k], p[k])] :
                t \in {u \in [1..n -> CsvTexts] :
                          \A i, j \in 1..n : i # j => u[i] # u[j]},
                p \in {q \in [1..n -> {Inf, Real(12)}] :
                          \A k \in 2..n : q[k] = Real(12)}} : n \in 0..2}

CsvInit ==
    /\ NoProcess
    /\ db \in CsvStores
    /\ seq = Len(db)
    /\ call = NoArgs
    /\ result = NoAnswer

\* export_to_text on its own, with the list it exports
ExportToText ==
    /\ call = NoArgs
    /\ \E format \in Formats, plan \in Plans :
        /\ call' = [NoArgs EXCEPT !.output = TRUE, !.format = format, !.plan = plan]
        /\ result' = [view |-> get_sentences_by_perplexity(db, None, None, None, plan),
                      file |-> export_to_text(db, format, plan),
                      printed |-> <<>>]
    /\ UNCHANGED pvars

SpecCsv == CsvInit /\ [][ExportToText]_vars

\* ------------------------------------------------------------------ segmenter alone
\* longest text drawn for the segmenter
MaxSplitChars == 9

\* the example of the specification and texts with the other characters
ExampleText ==
    <<"H", "i", ".", " ", "T", "h", "i", "s", " ", "i", "s", " ", "a", " ",
      "t", "e", "s", "t", " ", "s", "e", "n", "t", "e", "n", "c", "e", "!",
      " ", "O", "k", "?">>

\* the texts given to the segmenter
SplitTexts ==
    UNION {[1..n -> {"a", ".", " "}] : n \in 0..MaxSplitChars}
    \cup {ExampleText, <<"a", "?", "!", "\n", "a", ".", "a">>,
          <<"\n", "a", "!", "\t", "?", " ", "a", "\n">>}

SplitInit ==
    /\ PipelineInit
    /\ call \in [text : SplitTexts]
    /\ result = [strict |-> FALSE, sentences |-> <<"none">>]

\* split_into_sentences of the sorter (strict FALSE) or of the batch command
SplitIntoSentences ==
    /\ result.sentences = <<"none">>
    /\ \E strict \in BOOLEAN :
        result' = [strict |-> strict, sentences |-> split_into_sentences(call.text, strict)]
    /\ UNCHANGED <<call, pvars>>

SpecSplit == SplitInit /\ [][SplitIntoSentences]_vars

\* ------------------------------------------------------------------ store_result alone
\* store_result called with any id, on any database
SetScoreInit ==
    /\ NoProcess
    /\ db \in ExtractStores
    /\ seq = Len(db)
    /\ call \in [sentence_id : 1..(MaxRows + 1), perplexity : {Inf, Real(5)},
                 outcome : StoreOutcomes]
    /\ result = NoAnswer

StoreResultAlone ==
    /\ result = NoAnswer
    /\ LET r == store_result(db, txn, call.sentence_id, call.perplexity, call.outcome)
       IN  /\ result' = r
           /\ db' = r.rows
           /\ txn' = r.updates
    /\ UNCHANGED <<call, seq, model, pc, sentences, errors, pending, processed_count,
                   perplexity, calc, run, prev, inserted, scoredEver, stats>>

SpecSetScore == SetScoreInit /\ [][StoreResultAlone]_vars

\* ------------------------------------------------------------------ start of the commands
\* what exists where --database points: nothing, a file, or a file with the
\* sentences table; which command is started; whether the input file exists
StartCases ==
    [command : {"batch", "extract"}, input : BOOLEAN,
     files : {{}, {"database"}, {"database", "sentences"}}]

StartInit ==
    /\ NoProcess
    /\ call \in StartCases
    /\ db \in IF "sentences" \in call.files THEN ExtractStores ELSE {<<>>}
    /\ seq = Len(db)
    /\ result = NoAnswer

\* main of the batch command up to its test of the input file: the processor
\* is constructed first, and init_database creates the file and the table
BatchStart ==
    /\ result = NoAnswer
    /\ call.command = "batch"
    /\ result' = [files |-> call.files \cup {"database", "sentences"},
                  reported |-> ~call.input,
                  proceeds |-> call.input]
    /\ UNCHANGED <<call, pvars>>

\* main of the extractor up to the connection: PerplexityExtractor.__init__
\* raises FileNotFoundError before connecting, main prints it
ExtractorStart ==
    /\ result = NoAnswer
    /\ call.command = "extract"
    /\ result' = [files |-> call.files,
                  reported |-> "database" \notin call.files,
                  proceeds |-> "database" \in call.files]
    /\ UNCHANGED <<call, pvars>>

SpecStart == StartInit /\ [][BatchStart \/ ExtractorStart]_vars

\* ------------------------------------------------------------------ process_batch alone
\* the databases process_batch is run on: the k-th row holds the k-th of
\* these sentences, scored or not
RunTexts == <<"A", "B", "C", "D">>

RunStores ==
    UNION {{[k \in 1..n |-> Row(k, RunTexts[k], p[k])] :
                p \in [1..n -> {NULL, Real(2)}]} : n \in 0..MaxRows}

\* processed_count % batch_size == 0 for a batch_size that is not 0 (the
\* remainder takes the sign of the divisor, zero stays zero)
IsCheckpoint(count, batch_size) ==
    count % (IF batch_size < 0 THEN -batch_size ELSE batch_size) = 0

\* the for loop of process_batch: score, store_result, processed_count += 1,
\* then the test processed_count % batch_size == 0, which raises
\* ZeroDivisionError when batch_size is 0
RECURSIVE ProcessLoop(_, _, _, _, _)
ProcessLoop(st, got, scores, outcomes, batch_size) ==
    IF st.processed_count = Len(got)
    THEN [st EXCEPT !.ended = "returned"]
    ELSE LET sentence_id == got[st.processed_count + 1][1]
             r == store_result(st.rows, st.updates, sentence_id, scores[sentence_id],
                               outcomes[sentence_id])
             count == st.processed_count + 1
             after == [st EXCEPT !.rows = r.rows, !.updates = r.updates,
                                 !.processed_count = count,
                                 !.scored = Append(@, <<sentence_id, scores[sentence_id]>>)]
         IN  IF batch_size = 0
             THEN [after EXCEPT !.ended = "ZeroDivisionError"]
             ELSE ProcessLoop(IF IsCheckpoint(count, batch_size)
                              THEN [after EXCEPT !.markers = Append(@, count)]
                              ELSE after,
                              got, scores, outcomes, batch_size)

\* process_batch(verbose, batch_size) with the score the scorer gives each
\* record and the way each store_result ends
process_batch(rows, scores, outcomes, batch_size) ==
    LET got == get_pending_sentences(rows)
        st == [rows |-> rows, updates |-> <<>>, processed_count |-> 0,
               scored |-> <<>>, markers |-> <<>>, ended |-> "running"]
    IN  IF got = <<>>
        THEN [st EXCEPT !.ended = "returned"]
        ELSE ProcessLoop(st, got, scores, outcomes, batch_size)

CheckpointInit ==
    /\ NoProcess
    /\ call \in [rows : RunStores,
                 scores : {s \in [1..MaxRows -> {Inf, Real(2), Real(7)}] :
                              \A k \in 1..MaxRows : s[k] \in ScoresOf(RunTexts[k])},
                 outcomes : [1..MaxRows -> {"ok", "execute_error"}],
                 batch_size : -1..(MaxRows + 1)]
    /\ db = call.rows
    /\ seq = Len(db)
    /\ result = NoAnswer

\* one process_batch on a database
ProcessBatch ==
    /\ result = NoAnswer
    /\ LET r == process_batch(db, call.scores, call.outcomes, call.batch_size)
       IN  /\ result' = r
           /\ db' = r.rows
           /\ txn' = r.updates
    /\ model' = load_model(model)
    /\ UNCHANGED <<call, seq, pc, sentences, errors, pending, processed_count,
                   perplexity, calc, run, prev, inserted, scoredEver, stats>>

SpecCheckpoint == CheckpointInit /\ [][ProcessBatch]_vars

\* ------------------------------------------------------------------ claims
InRun == pc \in {"scoring", "storing", "done"}

\* the records of a run's snapshot whose score the run did not persist
Remaining(p) == SelectSeq(p.snapshot, LAMBDA i : i \notin p.persisted)

\* a step that calls calculate_perplexity
CalcStep == pc = "scoring" /\ (pc' = "storing" \/ run'.ended = "aborted_score")

\* C1: resumability. When a run of process_batch follows an earlier run that
\* read M pending records and persisted N of them, and no sentence was
\* inserted in between, the list read by get_pending_sentences is exactly the
\* other M-N records, the run passes only those to the scorer, none of the N
\* persisted ones, and when it returns it has processed exactly those M-N.
C1_Resumability ==
    (InRun /\ prev.ended # "none" /\ prev.inserted = {}) =>
        /\ SeqIds(pending) = Remaining(prev)
        /\ Range(run.scored) \cap prev.persisted = {}
        /\ Range(run.scored) \subseteq Range(Remaining(prev))
        /\ (run.ended = "returned" => run.scored = Remaining(prev))

C1_Witness ==
    /\ pc = "done"
    /\ prev.ended = "interrupted"
    /\ prev.inserted = {}
    /\ prev.persisted # {}
    /\ Len(prev.snapshot) > Cardinality(prev.persisted)
    /\ run.ended = "returned"
    /\ Len(run.scored) = Len(prev.snapshot) - Cardinality(prev.persisted)

\* C2 as stated: calculate_perplexity is called at most once for any record
\* id, over all runs, interrupted ones included.
C2_NeverScoredTwice ==
    [][CalcStep => pending[processed_count + 1][1] \notin scoredEver]_vars

\* C2 amended: calculate_perplexity is never called for a record whose
\* perplexity is present in the store, and at most once for a record in one
\* run; a record is scored again only by a later run, when its earlier score
\* was not persisted.
C2_NoPersistedRescored ==
    [][CalcStep =>
        LET id == pending[processed_count + 1][1]
        IN  /\ id \in RowIds(db)
            /\ IsNull(PerplexityOf(db, id))
            /\ id \notin Range(run.scored)]_vars

C2_Witness ==
    /\ pc = "storing"
    /\ prev.ended = "interrupted"
    /\ prev.persisted # {}
    /\ calc.id \in scoredEver
    /\ \E i \in Range(prev.snapshot) : i \notin prev.persisted /\ i = calc.id

\* C3: a perplexity that is present in the store never changes and never
\* becomes absent again, whatever step is taken; the row keeps its place and
\* its id.
C3_ScoreSetOnce ==
    [][\A k \in 1..Len(db) :
          ~IsNull(db[k].perplexity) =>
              /\ k <= Len(db')
              /\ db'[k].id = db[k].id
              /\ db'[k].perplexity = db[k].perplexity]_vars

C3_Witness ==
    /\ pc = "stored"
    /\ \E k \in 1..Len(db), j \in 1..Len(sentences) :
          /\ ~IsNull(db[k].perplexity)
          /\ sentences[j].ok
          /\ sentences[j].text = db[k].text
    /\ \E k \in 1..Len(db) : IsNull(db[k].perplexity)

\* C4: idempotent insertion. A store_sentences call leaves every row that
\* was in the store as it was (id, text, perplexity), the store holds no
\* text twice, the number of rows grows by the number of distinct texts that
\* were not in the store, and the only errors reported are those of the
\* inserts that failed: a text already in the store reports none.
C4_IdempotentInsertion ==
    [][(pc = "init" /\ pc' = "stored") =>
        /\ Len(db') >= Len(db)
        /\ \A k \in 1..Len(db) : db'[k] = db[k]
        /\ \A j, k \in 1..Len(db') : db'[j].text = db'[k].text => j = k
        /\ Len(db') = Len(db) + Cardinality(
              {sentences'[j].text : j \in {i \in 1..Len(sentences') : sentences'[i].ok}}
                  \ RowTexts(db))
        /\ errors' = Cardinality({i \in 1..Len(sentences') : ~sentences'[i].ok})]_vars

C4_Witness ==
    /\ pc = "stored"
    /\ Len(sentences) = 2
    /\ sentences[1].ok /\ sentences[2].ok
    /\ sentences[1].text = sentences[2].text
    /\ errors = 0
    /\ \E k \in 1..Len(db) :
          /\ db[k].text = sentences[1].text
          /\ ~IsNull(db[k].perplexity)

\* the records scored in the run whose score is not in the store
Lost == {i \in Range(run.scored) : IsNull(PerplexityOf(db, i))}

\* the last record passed to the scorer in the run
LastScored == IF run.scored = <<>> THEN {} ELSE {run.scored[Len(run.scored)]}

\* what holds of the scores during a run and after it, however it ended
ScoresSafe ==
    /\ \A p \in run.stored : p[1] \in RowIds(db) /\ PerplexityOf(db, p[1]) = p[2]
    /\ \A k \in 1..Len(db) :
          IsNull(db[k].perplexity) \/ db[k].perplexity \in ScoresOf(db[k].text)

\* C5 as stated: when a run is terminated, every score store_result
\* committed is in the store unchanged, every perplexity is absent or a
\* score the scorer computed for that sentence, and at most one record has
\* been scored without its score being persisted.
C5_AtMostOneLost ==
    run.ended = "interrupted" => ScoresSafe /\ Cardinality(Lost) <= 1

\* C5 amended: at every point of a run and after its termination, every
\* score for which store_result returned without an error is in the store
\* unchanged, every perplexity is absent or a score the scorer computed for
\* that sentence, and the records scored without their score being
\* persisted are at most the one in flight, besides those whose
\* store_result reported a store error.
C5_InterruptionSafety ==
    /\ ScoresSafe
    /\ (Lost \ run.failed) \subseteq LastScored
    /\ (run.ended = "returned" => Lost \subseteq run.failed)

C5_Witness ==
    /\ run.ended = "interrupted"
    /\ pc = "idle"
    /\ run.stored # {}
    /\ run.failed # {}
    /\ Cardinality(Lost) = 2
    /\ Lost \ run.failed # {}

\* C6: partial-failure isolation. No run is ended by a store error; a run
\* that returns has passed every record of its snapshot to the scorer, and
\* every record of the snapshot whose own store_result reported no error has
\* its score in the store, whatever failed before it.
C6_PartialFailureIsolation ==
    /\ run.ended # "aborted_store"
    /\ (run.ended = "returned" =>
          /\ run.scored = run.snapshot
          /\ \A i \in Range(run.snapshot) \ run.failed :
                /\ i \in ScoredIds(db)
                /\ \E p \in run.stored : p[1] = i)

C6_Witness ==
    /\ run.ended = "returned"
    /\ Len(run.snapshot) >= 2
    /\ run.failed = {run.snapshot[1]}
    /\ run.snapshot[1] \notin ScoredIds(db)
    /\ \A k \in 2..Len(run.snapshot) : run.snapshot[k] \in ScoredIds(db)

\* C7: an exception raised by the tokenizer or by a model query inside
\* calculate_perplexity never ends the run: the call returns infinite, the
\* score persisted for that record is infinite, and a run that returns has
\* passed every record of its snapshot to the scorer.
C7_ScoringFailureContained ==
    /\ run.ended # "aborted_score"
    /\ ((pc = "storing" /\ calc.exc) => perplexity = Inf)
    /\ \A i \in run.exc :
          /\ i \in Range(run.scored)
          /\ (i \in run.persisted => PerplexityOf(db, i) = Inf)
          /\ (run.ended = "returned" => (i \in run.failed \/ <<i, Inf>> \in run.stored))
    /\ (run.ended = "returned" => run.scored = run.snapshot)

C7_Witness ==
    /\ run.ended = "returned"
    /\ Len(run.snapshot) >= 2
    /\ run.snapshot[1] \in run.exc
    /\ <<run.snapshot[1], Inf>> \in run.stored
    /\ \E k \in 2..Len(run.snapshot) :
          /\ run.snapshot[k] \notin run.exc
          /\ run.snapshot[k] \in ScoredIds(db)
          /\ IsFinite(PerplexityOf(db, run.snapshot[k]))

\* C8: a sentence that the tokenizer turns into fewer than 2 tokens (0 or
\* 1) is scored infinite, and the model is not queried for it.
C8_TooShortIsInfinite ==
    (result # NoResult /\ ~call.tokRaise /\ Len(tokenizer_encode(call.sentence)) < 2) =>
        /\ result.value = Inf
        /\ result.queries = <<>>
        /\ ~result.exc
        /\ ~result.raised

C8_Witness ==
    /\ result # NoResult
    /\ ~call.tokRaise
    /\ Len(tokenizer_encode(call.sentence)) = 1
    /\ result.value = Inf
    /\ result.queries = <<>>

\* C9: get_statistics reports total = the number of records, processed =
\* the number of records with a perplexity (infinite ones included), and
\* remaining = total - processed = the number of pending records; for one
\* finite, one infinite and one absent score it reports 3, 2 and 1.
C9_StatisticsCounts ==
    stats.total >= 0 =>
        LET scored == {k \in 1..Len(db) : ~IsNull(db[k].perplexity)}
            absent == {k \in 1..Len(db) : IsNull(db[k].perplexity)}
        IN  /\ stats.total = Len(db)
            /\ stats.processed = Cardinality(scored)
            /\ stats.remaining = stats.total - stats.processed
            /\ stats.remaining = Cardinality(absent)
            /\ (/\ Len(db) = 3
                /\ \E a, b, c \in 1..3 :
                      /\ IsFinite(db[a].perplexity)
                      /\ IsInf(db[b].perplexity)
                      /\ IsNull(db[c].perplexity))
               => (stats.total = 3 /\ stats.processed = 2 /\ stats.remaining = 1)

C9_Witness ==
    /\ stats.total = 3
    /\ stats.processed = 2
    /\ stats.remaining = 1
    /\ \E a, b, c \in 1..Len(db) :
          /\ IsFinite(db[a].perplexity)
          /\ IsInf(db[b].perplexity)
          /\ IsNull(db[c].perplexity)

\* C10: get_statistics computes average, minimum and maximum over the
\* records whose perplexity is present and finite only, and infinite_count
\* is the number of records whose perplexity is infinite.
C10_FiniteAggregates ==
    stats.total >= 0 =>
        LET finite == SelectSeq(Column(db), IsFinite)
            infinite == {k \in 1..Len(db) : IsInf(db[k].perplexity)}
        IN  /\ stats.infinite_count = Cardinality(infinite)
            /\ IF finite = <<>>
               THEN /\ IsNull(stats.avg_perplexity)
                    /\ IsNull(stats.min_perplexity)
                    /\ IsNull(stats.max_perplexity)
               ELSE /\ stats.avg_perplexity = Real(SumVals(finite) \div Len(finite))
                    /\ stats.min_perplexity \in Range(finite)
                    /\ stats.max_perplexity \in Range(finite)
                    /\ \A k \in 1..Len(finite) :
                          /\ stats.min_perplexity.val <= finite[k].val
                          /\ stats.max_perplexity.val >= finite[k].val

\* ---------------------------------------------------------------- ranking claims
\* the store of the specification's example: A 5.0, B infinite, C 2.0
ExampleStore ==
    <<Row(1, <<"A">>, Real(5)), Row(2, <<"B", "a">>, Inf),
      Row(3, <<"C", "a", "b">>, Real(2))>>

Scored(rows) == SelectSeq(rows, ScoredRow)
FiniteScored(rows) == SelectSeq(rows, LAMBDA r : IsFinite(r.perplexity))
Smaller(a, b) == IF a < b THEN a ELSE b
IdOf(rows, text) == (CHOOSE r \in Range(rows) : r.text = text).id

\* the view lists rows of the store, none twice
FromStore(v, rows) ==
    /\ \A k \in 1..Len(v) : \E r \in Range(rows) : v[k][1] = r.text /\ v[k][2] = r.perplexity
    /\ \A i, j \in 1..Len(v) : i # j => v[i][1] # v[j][1]

\* the scores of the view never go up, the infinite one above the finite
Descending(v) == \A i, j \in 1..Len(v) : i < j => RealLeq(v[j][2], v[i][2])
Ascending(v) == \A i, j \in 1..Len(v) : i < j => RealLeq(v[i][2], v[j][2])

\* C11: top n. For any scored records and any k, get_top_perplexity_sentences(k)
\* returns min(k, number of scored records) records, those with the k largest
\* scores, by descending score, the infinite score above every finite one; on
\* the example store top_n(2) is [B, A]. sort_by_perplexity likewise returns
\* its whole list by descending score.
C11_TopN ==
    /\ call.op = "top" =>
        LET v == result.view IN
        /\ Len(v) = Smaller(call.n, Len(Scored(db)))
        /\ FromStore(v, Scored(db))
        /\ Descending(v)
        /\ \A r \in Range(Scored(db)) :
              (\A k \in 1..Len(v) : v[k][1] # r.text) =>
                  \A k \in 1..Len(v) : RealLeq(r.perplexity, v[k][2])
        /\ (db = ExampleStore /\ call.n = 2) =>
              v = <<<< <<"B", "a">>, Inf>>, << <<"A">>, Real(5)>>>>
    /\ call.op = "sort_by_perplexity" =>
        /\ Len(result.view) = Len(Scored(db))
        /\ FromStore(result.view, Scored(db))
        /\ Descending(result.view)

C11_Witness ==
    /\ call.op = "top"
    /\ call.n = 2
    /\ db = ExampleStore
    /\ result.view = <<<< <<"B", "a">>, Inf>>, << <<"A">>, Real(5)>>>>

\* C12: bottom n. get_bottom_perplexity_sentences(k) never returns a record
\* with an infinite score, even when k is more than the finite-scored records,
\* and returns the k lowest finite scores in ascending order; on the example
\* store bottom_n(2) and bottom_n(3) are both [C, A].
C12_BottomN ==
    call.op = "bottom" =>
        LET v == result.view IN
        /\ \A k \in 1..Len(v) : ~IsInf(v[k][2])
        /\ Len(v) = Smaller(call.n, Len(FiniteScored(db)))
        /\ FromStore(v, FiniteScored(db))
        /\ Ascending(v)
        /\ (db = ExampleStore /\ call.n \in {2, 3}) =>
              v = <<<< <<"C", "a", "b">>, Real(2)>>, << <<"A">>, Real(5)>>>>

\* C13: ties. In top n (and the sorted results) records of equal perplexity
\* come in insertion order, the smaller id first.
C13_TiesInInsertionOrder ==
    call.op \in {"top", "sorted", "sort_by_perplexity"} =>
        LET v == result.view IN
        \A i, j \in 1..Len(v) :
            (i < j /\ v[i][2] = v[j][2]) => IdOf(db, v[i][1]) < IdOf(db, v[j][1])

\* text contains keyword, character for character
Contains(text, keyword) ==
    \E i \in 1..(Len(text) - Len(keyword) + 1) :
        SubSeq(text, i, i + Len(keyword) - 1) = keyword

\* C14: no ranking view (top, bottom, most complex, by complexity weight,
\* search, range filter, sorted results) returns a record whose perplexity is
\* absent; the search returns the matches of infinite score, and its list is
\* by descending perplexity.
C14_NoAbsentScoreInViews ==
    /\ \A k \in 1..Len(result.view) : ~IsNull(result.view[k][2])
    /\ call.op = "search" =>
        /\ Descending(result.view)
        /\ \A r \in Range(db) :
              (IsInf(r.perplexity) /\ Contains(r.text, call.keyword)) =>
                  \E k \in 1..Len(result.view) : result.view[k] = Entry(r)

C14_Witness ==
    /\ call.op = "search"
    /\ \E k \in 1..Len(result.view) : IsInf(result.view[k][2])
    /\ \E r \in Range(db) : IsNull(r.perplexity) /\ Contains(r.text, call.keyword)
    /\ Len(result.view) >= 2

\* C15: the complexity views. get_most_complex_sentences(n, min_length) and
\* get_sentences_by_complexity(limit, min_length, weight) return only records
\* of present and finite perplexity whose text has at least min_length
\* characters, at most n (or limit) of them, by descending complexity score;
\* with weight 0 the order is the descending perplexity order.
C15_ComplexityViews ==
    call.op \in {"most_complex", "by_complexity"} =>
        LET v == result.view IN
        /\ \A k \in 1..Len(v) : IsFinite(v[k][2]) /\ Len(v[k][1]) >= call.min_length
        /\ call.op = "most_complex" => Len(v) <= call.n
        /\ (call.op = "by_complexity" /\ ~IsNull(call.limit)) => Len(v) <= call.limit.val
        /\ \A i, j \in 1..Len(v) : i < j => ~KeyLess(v[i][3], v[j][3])
        /\ (call.op = "by_complexity" /\ call.complexity_weight = 0) => Descending(v)

\* ---------------------------------------------------------------- export claims
\* the (text, score) pairs of a view
Pairs(v) == [k \in 1..Len(v) |-> <<v[k][1], v[k][2]>>]

\* C16: the export writes the ranked view it is given. When --output comes
\* with a selection (top, bottom, complex, search, range or limit), the file
\* holds exactly the entries of the selected view, in its order, in each of
\* the three formats.
C16_ExportWritesTheView ==
    call.output => result.file = WriteFile(Pairs(result.view), call.format)

\* reading a CSV file as csv.reader does: records of fields, quotes doubled
\* inside a quoted field, line breaks kept inside it
RECURSIVE CsvRead(_, _, _, _, _)
CsvRead(chars, state, field, record, records) ==
    IF chars = <<>>
    THEN IF state = "start_record" THEN records
         ELSE Append(records, Append(record, field))
    ELSE LET c == Head(chars)
             rest == Tail(chars)
         IN  CASE state = "in_quoted" ->
                    IF c = "\"" THEN CsvRead(rest, "quote_in_quoted", field, record, records)
                    ELSE CsvRead(rest, "in_quoted", Append(field, c), record, records)
               [] state = "quote_in_quoted" /\ c = "\"" ->
                    CsvRead(rest, "in_quoted", Append(field, c), record, records)
               [] state = "start_record" /\ c = "\n" ->
                    CsvRead(rest, "start_record", <<>>, <<>>, Append(records, <<>>))
               [] state \in {"start_record", "start_field"} /\ c = "\"" ->
                    CsvRead(rest, "in_quoted", <<>>, record, records)
               [] c = "\n" ->
                    CsvRead(rest, "start_record", <<>>, <<>>,
                            Append(records, Append(record, field)))
               [] c = "," ->
                    CsvRead(rest, "start_field", <<>>, Append(record, field), records)
               [] OTHER ->
                    CsvRead(rest, "in_field", Append(field, c), record, records)

\* the digits of a decimal numeral, 0 on none
RECURSIVE NumeralValue(_)
NumeralValue(digits) ==
    IF digits = <<>> THEN 0
    ELSE 10 * NumeralValue(SubSeq(digits, 1, Len(digits) - 1))
         + (CHOOSE d \in 0..9 : Digit(d) = digits[Len(digits)])

\* float(s) of a field: inf, or a numeral followed by .0
ReadFloat(s) ==
    IF s = <<"i", "n", "f">> THEN Inf
    ELSE IF /\ Len(s) >= 3
            /\ SubSeq(s, Len(s) - 1, Len(s)) = <<".", "0">>
            /\ \A k \in 1..(Len(s) - 2) : \E d \in 0..9 : Digit(d) = s[k]
         THEN Real(NumeralValue(SubSeq(s, 1, Len(s) - 2)))
         ELSE [kind |-> "ValueError", val |-> 0]

RECURSIVE Flatten(_)
Flatten(lines) == IF lines = <<>> THEN <<>> ELSE Head(lines) \o Flatten(Tail(lines))

\* the records read from a CSV file after its header, and whether each has
\* the two fields; then the (text, score) pairs they give
Body(file) == Tail(CsvRead(Flatten(file.lines), "start_record", <<>>, <<>>, <<>>))
WellFormed(file) == \A k \in 1..Len(Body(file)) : Len(Body(file)[k]) = 2
ReadBack(file) ==
    [k \in 1..Len(Body(file)) |-> <<Body(file)[k][1], ReadFloat(Body(file)[k][2])>>]

\* C17: round trip. The list written in the csv format and read back as CSV
\* gives the same (text, score) pairs in the same order, also for texts with
\* double quotes, commas or line breaks and for infinite scores.
C17_CsvRoundTrip ==
    (call.output /\ call.format = "csv") =>
        /\ Len(result.file.lines) = Len(result.view) + 1
        /\ WellFormed(result.file)
        /\ ReadBack(result.file) = result.view

C17_Witness ==
    /\ call.output
    /\ call.format = "csv"
    /\ Len(result.view) = 2
    /\ result.view[1][2] = Inf
    /\ result.view[1][1] = <<"\"", ",">>
    /\ result.view[2][1] = <<"\n", "\"">>
    /\ ReadBack(result.file) = result.view

\* ---------------------------------------------------------------- segmenter claim
\* position i of text t is in a separator: in a run of '.', '!', '?' that the
\* end of the text or whitespace follows, or in the whitespace after such a run
InSeparator(t, i) ==
    \/ /\ IsPunct(t[i])
       /\ \E e \in i..Len(t) :
            /\ \A k \in i..e : IsPunct(t[k])
            /\ e = Len(t) \/ IsSpace(t[e + 1])
    \/ /\ IsSpace(t[i])
       /\ \E b \in 2..i : IsPunct(t[b - 1]) /\ \A k \in b..i : IsSpace(t[k])

\* the fragments between the separators of t, in text order
Fragments(t) ==
    LET starts == {i \in 1..Len(t) : ~InSeparator(t, i) /\ (i = 1 \/ InSeparator(t, i - 1))}
        nth(k) == CHOOSE i \in starts : Cardinality({j \in starts : j < i}) = k - 1
        last(i) == CHOOSE e \in i..Len(t) :
                      /\ \A k \in i..e : ~InSeparator(t, k)
                      /\ e = Len(t) \/ InSeparator(t, e + 1)
    IN  [k \in 1..Cardinality(starts) |-> SubSeq(t, nth(k), last(nth(k)))]

Trimmed(s) == s # <<>> /\ ~IsSpace(s[1]) /\ ~IsSpace(s[Len(s)])

\* C18: split_into_sentences returns, in text order, the fragments between the
\* runs of '.', '!' or '?' that whitespace or the end of the text follows; each
\* is trimmed and non-empty (the sorter's variant) or trimmed and longer than 5
\* characters (the batch variant); repeated fragments are kept; the sorter's
\* variant maps "Hi. This is a test sentence! Ok?" to "Hi", "This is a test
\* sentence", "Ok".
C18_Segmentation ==
    result.sentences # <<"none">> =>
        LET out == result.sentences
            t == strip(call.text)
            all == [k \in 1..Len(Fragments(t)) |-> strip(Fragments(t)[k])]
        IN  /\ \A k \in 1..Len(out) : Trimmed(out[k]) /\ (result.strict => Len(out[k]) > 5)
            /\ out = SelectSeq(all, LAMBDA s : s # <<>> /\ (result.strict => Len(s) > 5))
            /\ (call.text = ExampleText /\ ~result.strict) =>
                  out = <<SubSeq(ExampleText, 1, 2), SubSeq(ExampleText, 5, 27),
                          SubSeq(ExampleText, 30, 31)>>

C18_Witness ==
    /\ call.text = ExampleText
    /\ ~result.strict
    /\ Len(result.sentences) = 3
    /\ result.sentences[2] = SubSeq(ExampleText, 5, 27)

\* ---------------------------------------------------------------- error claims
\* C19: store_result(id, perplexity) with an id that matches no record fails,
\* reporting an error, and leaves the store unchanged; with an id that exists
\* it sets the score of that one record.
C19_SetScoreOfMissingIdFails ==
    [][/\ call.sentence_id \notin RowIds(db) => (result'.error /\ db' = db)
       /\ (call.sentence_id \in RowIds(db) /\ ~result'.error) =>
             db' = Update(db, call.sentence_id, call.perplexity)]_vars

\* C20: input errors leave no side effect. When the batch command is started
\* with an input file that does not exist, or the extractor with a database
\* that does not exist, the error is reported, the command stops, and no
\* database file, table or record is created.
C20_InputErrorsLeaveNothing ==
    (/\ result # NoAnswer
     /\ \/ call.command = "batch" /\ ~call.input
        \/ call.command = "extract" /\ "database" \notin call.files) =>
        /\ result.reported
        /\ ~result.proceeds
        /\ result.files = call.files

\* ---------------------------------------------------------------- lazy loading
\* C21: the model is not loaded when the processor is constructed; a loaded
\* model is not loaded again in the process; and loading waits for work: a
\* process_batch that finds no pending record returns with no model loaded.
C21_LazyLoading ==
    [][/\ (pc = "idle" /\ pc' = "init") => model' = "None"
       /\ (model = "loaded" /\ pc' # "idle") => model' = "loaded"
       /\ (model = "None" /\ model' = "loaded") => pc = "stored"
       /\ (pc = "stored" /\ pc' = "done") => model' = "None"]_vars

\* ---------------------------------------------------------------- snapshot
\* C22: process_batch reads the pending list once: the list does not change
\* during the run; a sentence inserted after the read is not in the list, is
\* not scored and not updated by the run, and is pending when the run ends;
\* the next read of the pending list has it.
C22_SnapshotReadOnce ==
    [][/\ (pc \in {"scoring", "storing"} /\ pc' # "idle") => pending' = pending
       /\ pc' \in {"scoring", "storing", "done"} =>
            \A i \in inserted' :
                /\ i \notin Range(SeqIds(pending'))
                /\ i \notin Range(run'.scored)
                /\ i \in RowIds(db')
                /\ IsNull(PerplexityOf(View(db', txn'), i))
       /\ (pc = "stored" /\ pc' \in {"scoring", "done"}) =>
            inserted \subseteq Range(SeqIds(pending'))]_vars

C22_Witness ==
    /\ pc = "done"
    /\ run.ended = "returned"
    /\ run.scored = run.snapshot
    /\ run.persisted # {}
    /\ inserted # {}
    /\ \A i \in inserted : i \notin Range(run.snapshot) /\ IsNull(PerplexityOf(db, i))

\* ---------------------------------------------------------------- order of a run
\* the ids of a run that were passed to store_result
PassedToStore(r) == {s[1] : s \in r.stored} \cup r.failed

\* C23: the pending records are handled in ascending id order, and a score is
\* passed to store_result before the scorer is called for the next record:
\* whenever a record is scored, every record before it in the list read at
\* the start of the run has been scored and passed to store_result.
C23_ScoreThenStoreInOrder ==
    InRun =>
        /\ \A j, k \in 1..Len(pending) : j < k => pending[j][1] < pending[k][1]
        /\ Len(run.scored) = processed_count + (IF pc = "storing" THEN 1 ELSE 0)
        /\ run.scored = SubSeq(SeqIds(pending), 1, Len(run.scored))
        /\ PassedToStore(run) = {pending[k][1] : k \in 1..processed_count}

C23_Witness ==
    /\ pc = "storing"
    /\ processed_count = 2
    /\ Len(pending) = 3
    /\ run.failed # {}
    /\ run.stored # {}
    /\ calc.id = pending[3][1]

\* ---------------------------------------------------------------- scorer loop
\* what position k (from 1) adds to the total: -ln(p), or 20 for a
\* probability that is not valid
NllAt(probs, k) == IF probs[k].kind = "valid" THEN probs[k].nll ELSE 20

RECURSIVE SumNll(_, _)
SumNll(probs, k) == IF k = 0 THEN 0 ELSE SumNll(probs, k - 1) + NllAt(probs, k)

\* the call is of a sentence of at least 2 tokens and nothing raises
NoFailure ==
    /\ ~call.tokRaise
    /\ Len(tokenizer_encode(call.sentence)) >= 2
    /\ \A k \in 1..(Len(tokenizer_encode(call.sentence)) - 1) : call.probs[k].kind # "raise"

\* C24: for a sentence of n >= 2 tokens and no failure the model is queried
\* n-1 times, the k-th time with the first k tokens as context and token k+1
\* as target; the total is the sum over the n-1 positions of -ln(p) or 20,
\* the divisor is n-1, and the result is exp(total / (n-1)), never the
\* infinite result of zero predictions.
C24_EveryPositionCounts ==
    (result # NoResult /\ NoFailure) =>
        LET tokens == tokenizer_encode(call.sentence)
            n == Len(tokens)
            loop == PredictLoop(tokens, call.probs, 0, 0, 0, <<>>)
        IN  /\ result.ntokens = n
            /\ ~result.exc
            /\ Len(result.queries) = n - 1
            /\ \A k \in 1..(n - 1) :
                   result.queries[k] = <<SubSeq(tokens, 1, k), tokens[k + 1]>>
            /\ loop.total_nll = SumNll(call.probs, n - 1)
            /\ loop.num_predictions = n - 1
            /\ result.value = Real(Exp(SumNll(call.probs, n - 1) \div (n - 1)))
            /\ ~IsInf(result.value)

C24_Witness ==
    /\ result # NoResult
    /\ NoFailure
    /\ call.sentence = "A"
    /\ call.probs[1].kind = "valid"
    /\ call.probs[1].nll = 2
    /\ call.probs[2].kind = "invalid"
    /\ result.queries = <<<<<<11>>, 12>>, <<<<11, 12>>, 13>>>>
    /\ result.value = Real(Exp(11))

\* ---------------------------------------------------------------- checkpoint
\* the counts at which a marker is due: the positive multiples of batch_size
\* up to count, in order
MarkersDue(count, batch_size) ==
    LET due(k) == \E m \in (-k)..k : k = m * batch_size
    IN  SelectSeq([k \in 1..count |-> k], due)

\* C25: the checkpoint only observes: a marker is emitted exactly when the
\* number of records processed is a positive multiple of batch_size, and the
\* records scored and the scores persisted by the run are the same for every
\* batch_size.
C25_CheckpointObservesOnly ==
    result # NoAnswer =>
        /\ result.markers = MarkersDue(result.processed_count, call.batch_size)
        /\ \A b \in -1..(MaxRows + 1) :
               LET other == process_batch(call.rows, call.scores, call.outcomes, b)
               IN  /\ other.scored = result.scored
                   /\ other.rows = result.rows

\* ---------------------------------------------------------------- search
LowerCase(text) == [k \in 1..Len(text) |-> Lower(text[k])]

\* C26: a case-sensitive search returns exactly the scored records whose text
\* contains the keyword as a literal substring in the same letter case; a
\* search that is not case-sensitive returns exactly the scored records whose
\* text contains the keyword whatever the case.
C26_SearchIsLiteral ==
    call.op = "search" =>
        LET matches(r) ==
                /\ ~IsNull(r.perplexity)
                /\ IF call.case_sensitive THEN Contains(r.text, call.keyword)
                   ELSE Contains(LowerCase(r.text), LowerCase(call.keyword))
        IN  /\ {e[1] : e \in Range(result.view)}
                = {db[k].text : k \in {j \in 1..Len(db) : matches(db[j])}}
            /\ \A e \in Range(result.view) :
                   \E k \in 1..Len(db) : db[k].text = e[1] /\ db[k].perplexity = e[2]

\* ---------------------------------------------------------------- frame of set_score
\* C27: setting a score is the only mutation after insertion. No step
\* deletes a record or changes the id or the text of one; the perplexity of
\* a record changes only in a store_result called with the id of that
\* record: store_result leaves the perplexity of every other record as it
\* was.
C27_OnlyTheScoreOfTheGivenId ==
    [][/\ Len(db') >= Len(db)
       /\ \A k \in 1..Len(db) :
            /\ db'[k].id = db[k].id
            /\ db'[k].text = db[k].text
            /\ db'[k].perplexity # db[k].perplexity =>
                   /\ pc = "storing"
                   /\ db[k].id = pending[processed_count + 1][1]
                   /\ db'[k].perplexity = perplexity]_vars

\* ---------------------------------------------------------------- end of a run
\* C28: a process_batch that is not interrupted and meets no persistence
\* failure ends, and at its end every record of the list it read has a
\* perplexity, so that get_pending_sentences then returns the empty list.
C28_RunClearsItsSnapshot ==
    (/\ result # NoAnswer
     /\ \A k \in 1..Len(call.rows) :
            IsNull(call.rows[k].perplexity) => call.outcomes[call.rows[k].id] = "ok") =>
        /\ result.ended # "running"
        /\ \A k \in 1..Len(result.rows) : ~IsNull(result.rows[k].perplexity)
        /\ get_pending_sentences(View(db, txn)) = <<>>

====
